---- MODULE Spec2Model ----
(***************************************************************************)
(* Model of the interactive overlay engine of Gemini-Calorie-Counter:      *)
(* the pointer/touch interaction state machine of ImageAnalysisDisplay     *)
(* (src/components/ImageAnalysisDisplay.tsx) together with the part of App *)
(* (src/App.tsx) that owns the box collection and the editing flag.        *)
(*                                                                         *)
(* Normalized coordinates (fractions of the image in [0,1]) are kept as    *)
(* integers in units of 1/Scale.  The rendered image width and height      *)
(* divide Scale, so every coordinate the handlers compute (sums,           *)
(* differences, min, max, abs of pointer coordinates) is exact.  The       *)
(* model therefore follows the real-number reading of the arithmetic, not  *)
(* IEEE rounding.                                                          *)
(*                                                                         *)
(* Each handler runs on the current state (React re-renders between        *)
(* events, so a handler's closure holds the latest props and state).  A    *)
(* handler's early return is the guard of its action.  Init is the state   *)
(* after the component has mounted inside App in stage 'editing' and its   *)
(* mount effect has computed the render geometry.                          *)
(***************************************************************************)
EXTENDS Integers, Sequences, FiniteSets, TLC

VARIABLES
    stage,            \* App: AppStage; 'upload' stands for the stages without the display
    imageDimensions,  \* App: {width, height} of the image, NoDimensions for null
    userBoxes,        \* App: the box collection (prop `boxes` of the display)
    error,            \* App: TRUE when an error message is set
    pending,          \* App: the userBoxes captured by a handleIdentify call in flight
    container,        \* DOM: <<offsetWidth, offsetHeight>> of the display's container
    imgRenderedSize,  \* display: {width, height, offsetX, offsetY} in pixels
    activeBoxId,      \* display: id of the active box, 0 for null
    interaction,      \* display: InteractionMode
    labelStyles,      \* display: the placements {id, topOffset, zIndex} of the shifted labels
    timers,           \* display: the layout timers that are scheduled, each with its render's deps
    nextId,           \* the next value uuid() returns
    held,             \* the pointer that is currently down (mouse button or first touch)
    gestures,         \* the number of pointer-downs the behaviour may still take
    pass,             \* history: the labels, the placedRects and the deps of the latest layout pass
    hist,             \* history: the last event, what it found, whether it called onBoxesChange
    pre               \* history: the collection before the latest pointer-down

vars == <<stage, imageDimensions, userBoxes, error, pending, container, imgRenderedSize, activeBoxId,
          interaction, labelStyles, timers, nextId, held, gestures, pass, hist, pre>>

----------------------------------------------------------------------------
(* Bounds *)

\* a behaviour holds at most MaxGestures pointer-downs (each starts a gesture)
MaxGestures == 2
\* the same for the behaviours of SpecMouse
LongGestures == 3
\* the same for the behaviours of SpecMount
MountGestures == 1
\* the same for the behaviours of SpecResize
ResizeGestures == 2
\* the same for the behaviours of SpecApp
AppGestures == 1

----------------------------------------------------------------------------
(* Numbers *)

Scale == 1200                \* one normalized unit is 1/Scale
ContainerWidth == 400        \* containerRef.current.offsetWidth
ContainerHeight == 300       \* containerRef.current.offsetHeight
ImageWidth == 800            \* imageDimensions.width
ImageHeight == 400           \* imageDimensions.height
RectLeft == 10               \* containerRef.current.getBoundingClientRect().left
RectTop == 20                \* containerRef.current.getBoundingClientRect().top
HandleHalf == 6              \* w-3 h-3 -m-1.5: a handle is 12px, centred on its corner
ButtonHalf == 12             \* w-6 h-6 -top-3 -right-3: the delete button, 24px on the corner

Min(a, b) == IF a < b THEN a ELSE b
Max(a, b) == IF a > b THEN a ELSE b
Abs(a) == IF a < 0 THEN -a ELSE a

----------------------------------------------------------------------------
(* Geometry Mapper *)

calculateImageRenderSize(containerWidth, offsetHeight, imageW, imageH) ==
    LET containerHeight == IF offsetHeight < 100 THEN 500 ELSE offsetHeight
    IN  IF imageW * containerHeight > containerWidth * imageH   \* imageAR > containerAR
        THEN LET height == (containerWidth * imageH) \div imageW
             IN  [width |-> containerWidth, height |-> height,
                  offsetX |-> 0, offsetY |-> (containerHeight - height) \div 2]
        ELSE LET width == (containerHeight * imageW) \div imageH
             IN  [width |-> width, height |-> containerHeight,
                  offsetX |-> (containerWidth - width) \div 2, offsetY |-> 0]

\* the values a division by zero gives: n/0 is +-Infinity, 0/0 is NaN
Infinity == 100000000
NaN == -1000000000

\* pixels / size in normalized units
Quotient(pixels, size) ==
    IF size # 0 THEN (pixels * Scale) \div size
    ELSE IF pixels > 0 THEN Infinity
    ELSE IF pixels < 0 THEN -Infinity
    ELSE NaN

\* Math.max(0, Math.min(1, v)); NaN stays NaN
Clamp01(v) == IF v = NaN THEN NaN ELSE Max(0, Min(Scale, v))

\* client pixels -> normalized units, both axes clamped to [0,1]
toImageCoords(clientX, clientY) ==
    [x |-> Clamp01(Quotient(clientX - RectLeft - imgRenderedSize.offsetX,
                            imgRenderedSize.width)),
     y |-> Clamp01(Quotient(clientY - RectTop - imgRenderedSize.offsetY,
                            imgRenderedSize.height))]

\* normalized box -> client pixel rectangle of the box element
toScreenStyle(box) ==
    [left   |-> RectLeft + imgRenderedSize.offsetX + (box.x * imgRenderedSize.width) \div Scale,
     top    |-> RectTop + imgRenderedSize.offsetY + (box.y * imgRenderedSize.height) \div Scale,
     width  |-> (box.width * imgRenderedSize.width) \div Scale,
     height |-> (box.height * imgRenderedSize.height) \div Scale]

----------------------------------------------------------------------------
(* Boxes *)

BoundingBox(x, y, w, h) == [x |-> x, y |-> y, width |-> w, height |-> h]

\* a UserBox; name "" and calories 0 stand for the absent (falsy) fields
UserBox(id, bb) == [id |-> id, boundingBox |-> bb, name |-> "", calories |-> 0]

Ids(bs) == {bs[i].id : i \in 1..Len(bs)}

\* boxes.find(b => b.id === boxId)
Find(bs, boxId) == bs[CHOOSE i \in 1..Len(bs) : bs[i].id = boxId]

\* boxes.map(b => b.id === boxId ? { ...b, boundingBox } : b)
ReplaceBoundingBox(bs, boxId, bb) ==
    [i \in 1..Len(bs) |->
        IF bs[i].id = boxId THEN [bs[i] EXCEPT !.boundingBox = bb] ELSE bs[i]]

----------------------------------------------------------------------------
(* Props the App passes to the display *)

boxes == userBoxes
isEditing == stage = "editing"
isLoading == stage = "analyzing"

\* App.tsx line 153: the stages in which the display is rendered
displayed == stage \in {"editing", "analyzing", "results"}

----------------------------------------------------------------------------
(* Which element a pointer position hits (the rendered tree, lines 284-326) *)

Handles == <<"top-left", "top-right", "bottom-left", "bottom-right">>

\* handle.includes(part)
Includes(handle, part) ==
    CASE handle = "top-left"     -> part \in {"top", "left"}
      [] handle = "top-right"    -> part \in {"top", "right"}
      [] handle = "bottom-left"  -> part \in {"bottom", "left"}
      [] handle = "bottom-right" -> part \in {"bottom", "right"}

InRect(p, left, top, width, height) ==
    /\ left <= p[1] /\ p[1] < left + width
    /\ top <= p[2] /\ p[2] < top + height

OnBox(p, box) ==
    LET s == toScreenStyle(box.boundingBox)
    IN  InRect(p, s.left, s.top, s.width, s.height)

\* a handle sits on the corner its name gives: top-0/bottom-0, left-0/right-0
OnHandle(p, box, handle) ==
    LET s == toScreenStyle(box.boundingBox)
        cx == IF Includes(handle, "left") THEN s.left ELSE s.left + s.width
        cy == IF Includes(handle, "top") THEN s.top ELSE s.top + s.height
    IN  InRect(p, cx - HandleHalf, cy - HandleHalf, 2 * HandleHalf, 2 * HandleHalf)

\* the delete button sits on the top right corner
OnButton(p, box) ==
    LET s == toScreenStyle(box.boundingBox)
    IN  InRect(p, s.left + s.width - ButtonHalf, s.top - ButtonHalf,
               2 * ButtonHalf, 2 * ButtonHalf)

Canvas == [kind |-> "canvas"]
Button == [kind |-> "button"]
BoxBody(id) == [kind |-> "box", boxId |-> id]
Handle(id, h) == [kind |-> "handle", boxId |-> id, handle |-> h]

\* The topmost element under p while editing: the active box (z-20) with its
\* button and handles (z-30, the later sibling on top), then the other boxes
\* (z-10, the later one on top), then the image.
HitTest(p) ==
    LET hasActive == isEditing /\ activeBoxId \in Ids(boxes)
        active == Find(boxes, activeBoxId)
        hit == {i \in 1..Len(boxes) : OnBox(p, boxes[i])}
        hs == {j \in 1..4 : OnHandle(p, active, Handles[j])}
    IN  IF hasActive /\ OnButton(p, active) THEN Button
        ELSE IF hasActive /\ hs # {}
            THEN Handle(activeBoxId, Handles[CHOOSE j \in hs : \A k \in hs : k <= j])
        ELSE IF hasActive /\ OnBox(p, active) THEN BoxBody(activeBoxId)
        ELSE IF hit # {}
            THEN BoxBody(boxes[CHOOSE i \in hit : \A k \in hit : k <= i].id)
        ELSE Canvas

----------------------------------------------------------------------------
(* Interaction State Machine: the three handlers *)

None == [mode |-> "none"]

\* DrawingBox keeping the anchor as the origin wherever the pointer is
DrawingBoxAtAnchor(startX, startY, coords) ==
    BoundingBox(startX, startY, Abs(coords.x - startX), Abs(coords.y - startY))

\* lines 180-185
DrawingBox(startX, startY, coords) ==
    BoundingBox(Min(startX, coords.x), Min(startY, coords.y),
                Abs(coords.x - startX), Abs(coords.y - startY))

\* MovingBox adding the pointer delta to the box's current position
MovingBoxAccumulating(current, startBox, startX, startY, coords) ==
    LET newX == current.x + (coords.x - startX)
        newY == current.y + (coords.y - startY)
    IN  [current EXCEPT
            !.x = Max(0, Min(Scale - startBox.width, newX)),
            !.y = Max(0, Min(Scale - startBox.height, newY))]

\* lines 190-199: the box keeps its own width and height
MovingBox(current, startBox, startX, startY, coords) ==
    LET newX == startBox.x + (coords.x - startX)
        newY == startBox.y + (coords.y - startY)
    IN  [current EXCEPT
            !.x = Max(0, Min(Scale - startBox.width, newX)),
            !.y = Max(0, Min(Scale - startBox.height, newY))]

\* ResizingBox with the right edge handled like the left one (x follows the pointer)
ResizingBoxRightShiftsX(startBox, handle, startX, startY, coords) ==
    LET dx == coords.x - startX
        dy == coords.y - startY
        h1 == IF Includes(handle, "bottom") THEN startBox.height + dy ELSE startBox.height
        y2 == IF Includes(handle, "top") THEN startBox.y + dy ELSE startBox.y
        h2 == IF Includes(handle, "top") THEN h1 - dy ELSE h1
        w1 == IF Includes(handle, "right") THEN startBox.width + dx ELSE startBox.width
        x2 == startBox.x + dx
        w2 == IF Includes(handle, "left") THEN w1 - dx ELSE w1
    IN  BoundingBox(IF w2 < 0 THEN x2 + w2 ELSE x2,
                    IF h2 < 0 THEN y2 + h2 ELSE y2,
                    IF w2 < 0 THEN -w2 ELSE w2,
                    IF h2 < 0 THEN -h2 ELSE h2)

\* ResizingBox with the left and top edges moved but the size left as it was
ResizingBoxLeftKeepsSize(startBox, handle, startX, startY, coords) ==
    LET dx == coords.x - startX
        dy == coords.y - startY
        h2 == IF Includes(handle, "bottom") THEN startBox.height + dy ELSE startBox.height
        y2 == IF Includes(handle, "top") THEN startBox.y + dy ELSE startBox.y
        w2 == IF Includes(handle, "right") THEN startBox.width + dx ELSE startBox.width
        x2 == IF Includes(handle, "left") THEN startBox.x + dx ELSE startBox.x
    IN  BoundingBox(IF w2 < 0 THEN x2 + w2 ELSE x2,
                    IF h2 < 0 THEN y2 + h2 ELSE y2,
                    IF w2 < 0 THEN -w2 ELSE w2,
                    IF h2 < 0 THEN -h2 ELSE h2)

\* ResizingBox without lines 213-214: a negative width or height stays
ResizingBoxUnfolded(startBox, handle, startX, startY, coords) ==
    LET dx == coords.x - startX
        dy == coords.y - startY
        h1 == IF Includes(handle, "bottom") THEN startBox.height + dy ELSE startBox.height
        y2 == IF Includes(handle, "top") THEN startBox.y + dy ELSE startBox.y
        h2 == IF Includes(handle, "top") THEN h1 - dy ELSE h1
        w1 == IF Includes(handle, "right") THEN startBox.width + dx ELSE startBox.width
        x2 == IF Includes(handle, "left") THEN startBox.x + dx ELSE startBox.x
        w2 == IF Includes(handle, "left") THEN w1 - dx ELSE w1
    IN  BoundingBox(x2, y2, w2, h2)

\* lines 203-214
ResizingBox(startBox, handle, startX, startY, coords) ==
    LET dx == coords.x - startX
        dy == coords.y - startY
        h1 == IF Includes(handle, "bottom") THEN startBox.height + dy ELSE startBox.height
        y2 == IF Includes(handle, "top") THEN startBox.y + dy ELSE startBox.y
        h2 == IF Includes(handle, "top") THEN h1 - dy ELSE h1
        w1 == IF Includes(handle, "right") THEN startBox.width + dx ELSE startBox.width
        x2 == IF Includes(handle, "left") THEN startBox.x + dx ELSE startBox.x
        w2 == IF Includes(handle, "left") THEN w1 - dx ELSE w1
    IN  BoundingBox(IF w2 < 0 THEN x2 + w2 ELSE x2,
                    IF h2 < 0 THEN y2 + h2 ELSE y2,
                    IF w2 < 0 THEN -w2 ELSE w2,
                    IF h2 < 0 THEN -h2 ELSE h2)

\* AboveThreshold as the comment on line 222 words it: only zero-sized boxes fail
AboveZero(b) ==
    /\ b.boundingBox.width > 0
    /\ b.boundingBox.height > 0

\* line 223: b.boundingBox.width > 0.005 && b.boundingBox.height > 0.005
AboveThreshold(b) ==
    /\ b.boundingBox.width * 1000 > 5 * Scale
    /\ b.boundingBox.height * 1000 > 5 * Scale

\* handleInteractionStart putting the new box in front of the collection
handleInteractionStartInFront(p, target, called) ==
    LET coords == toImageCoords(p[1], p[2])
    IN  CASE target.kind = "handle" ->
               /\ interaction' =
                    IF target.boxId \in Ids(boxes)
                    THEN [mode |-> "resizing", boxId |-> target.boxId,
                          handle |-> target.handle,
                          startX |-> coords.x, startY |-> coords.y,
                          startBox |-> Find(boxes, target.boxId).boundingBox]
                    ELSE interaction
               /\ called = FALSE
               /\ UNCHANGED <<userBoxes, activeBoxId, nextId>>
          [] target.kind = "box" ->
               /\ IF target.boxId \in Ids(boxes)
                  THEN /\ activeBoxId' = target.boxId
                       /\ interaction' =
                            [mode |-> "moving", boxId |-> target.boxId,
                             startX |-> coords.x, startY |-> coords.y,
                             startBox |-> Find(boxes, target.boxId).boundingBox]
                  ELSE UNCHANGED <<activeBoxId, interaction>>
               /\ called = FALSE
               /\ UNCHANGED <<userBoxes, nextId>>
          [] OTHER ->
               /\ userBoxes' = <<UserBox(nextId, BoundingBox(coords.x, coords.y, 0, 0))>>
                                   \o boxes
               /\ nextId' = nextId + 1
               /\ activeBoxId' = nextId
               /\ interaction' = [mode |-> "drawing",
                                  startX |-> coords.x, startY |-> coords.y]
               /\ called = TRUE

\* handleInteractionStart entering Drawing without a box: the box would be
\* created by the first pointer move
handleInteractionStartDeferred(p, target, called) ==
    LET coords == toImageCoords(p[1], p[2])
    IN  CASE target.kind = "handle" ->
               /\ interaction' =
                    IF target.boxId \in Ids(boxes)
                    THEN [mode |-> "resizing", boxId |-> target.boxId,
                          handle |-> target.handle,
                          startX |-> coords.x, startY |-> coords.y,
                          startBox |-> Find(boxes, target.boxId).boundingBox]
                    ELSE interaction
               /\ called = FALSE
               /\ UNCHANGED <<userBoxes, activeBoxId, nextId>>
          [] target.kind = "box" ->
               /\ IF target.boxId \in Ids(boxes)
                  THEN /\ activeBoxId' = target.boxId
                       /\ interaction' =
                            [mode |-> "moving", boxId |-> target.boxId,
                             startX |-> coords.x, startY |-> coords.y,
                             startBox |-> Find(boxes, target.boxId).boundingBox]
                  ELSE UNCHANGED <<activeBoxId, interaction>>
               /\ called = FALSE
               /\ UNCHANGED <<userBoxes, nextId>>
          [] OTHER ->
               /\ activeBoxId' = 0
               /\ interaction' = [mode |-> "drawing",
                                  startX |-> coords.x, startY |-> coords.y]
               /\ called = FALSE
               /\ UNCHANGED <<userBoxes, nextId>>

\* handleInteractionStart past its early return; `called` records onBoxesChange
handleInteractionStart(p, target, called) ==
    LET coords == toImageCoords(p[1], p[2])
    IN  CASE target.kind = "handle" ->
               /\ interaction' =
                    IF target.boxId \in Ids(boxes)
                    THEN [mode |-> "resizing", boxId |-> target.boxId,
                          handle |-> target.handle,
                          startX |-> coords.x, startY |-> coords.y,
                          startBox |-> Find(boxes, target.boxId).boundingBox]
                    ELSE interaction
               /\ called = FALSE
               /\ UNCHANGED <<userBoxes, activeBoxId, nextId>>
          [] target.kind = "box" ->
               /\ IF target.boxId \in Ids(boxes)
                  THEN /\ activeBoxId' = target.boxId
                       /\ interaction' =
                            [mode |-> "moving", boxId |-> target.boxId,
                             startX |-> coords.x, startY |-> coords.y,
                             startBox |-> Find(boxes, target.boxId).boundingBox]
                  ELSE UNCHANGED <<activeBoxId, interaction>>
               /\ called = FALSE
               /\ UNCHANGED <<userBoxes, nextId>>
          [] OTHER ->
               /\ userBoxes' = Append(boxes,
                     UserBox(nextId, BoundingBox(coords.x, coords.y, 0, 0)))
               /\ nextId' = nextId + 1
               /\ activeBoxId' = nextId
               /\ interaction' = [mode |-> "drawing",
                                  startX |-> coords.x, startY |-> coords.y]
               /\ called = TRUE

\* the collection handleInteractionMove passes to onBoxesChange
MovedBoxes(coords) ==
    CASE interaction.mode = "drawing" ->
           ReplaceBoundingBox(boxes, activeBoxId,
               DrawingBox(interaction.startX, interaction.startY, coords))
      [] interaction.mode = "moving" ->
           [i \in 1..Len(boxes) |->
               IF boxes[i].id = interaction.boxId
               THEN [boxes[i] EXCEPT !.boundingBox =
                        MovingBox(boxes[i].boundingBox, interaction.startBox,
                                  interaction.startX, interaction.startY, coords)]
               ELSE boxes[i]]
      [] interaction.mode = "resizing" ->
           ReplaceBoundingBox(boxes, interaction.boxId,
               ResizingBox(interaction.startBox, interaction.handle,
                           interaction.startX, interaction.startY, coords))

\* handleInteractionMove giving up a gesture whose box is gone
handleInteractionMoveAborting(p) ==
    IF interaction.mode \in {"moving", "resizing"} /\ interaction.boxId \notin Ids(boxes)
    THEN /\ interaction' = None
         /\ UNCHANGED <<userBoxes, activeBoxId, nextId>>
    ELSE /\ userBoxes' = MovedBoxes(toImageCoords(p[1], p[2]))
         /\ UNCHANGED <<activeBoxId, interaction, nextId>>

\* handleInteractionMove past its early returns
handleInteractionMove(p) ==
    /\ userBoxes' = MovedBoxes(toImageCoords(p[1], p[2]))
    /\ UNCHANGED <<activeBoxId, interaction, nextId>>

\* handleInteractionEnd discarding the active box only
handleInteractionEndActiveOnly(called) ==
    LET keep(b) == b.id # activeBoxId \/ AboveThreshold(b)
        newBoxes == SelectSeq(boxes, keep)
        filters == interaction.mode \in {"drawing", "resizing"}
    IN  /\ userBoxes' = IF filters THEN newBoxes ELSE boxes
        /\ called = (filters /\ Len(newBoxes) # Len(boxes))
        /\ interaction' = None
        /\ UNCHANGED <<activeBoxId, nextId>>

\* handleInteractionEnd; `called` records onBoxesChange
handleInteractionEnd(called) ==
    LET newBoxes == SelectSeq(boxes, AboveThreshold)
        filters == interaction.mode \in {"drawing", "resizing"}
    IN  /\ userBoxes' = IF filters THEN newBoxes ELSE boxes
        /\ called = (filters /\ Len(newBoxes) # Len(boxes))
        /\ interaction' = None
        /\ UNCHANGED <<activeBoxId, nextId>>

\* handleDelete discarding the boxes that are not above the threshold as well
handleDeleteAndSmall(boxId) ==
    LET keep(b) == b.id # boxId /\ AboveThreshold(b)
    IN  userBoxes' = SelectSeq(boxes, keep)

\* handleDelete
handleDelete(boxId) ==
    LET keep(b) == b.id # boxId
    IN  userBoxes' = SelectSeq(boxes, keep)

----------------------------------------------------------------------------
(* Label Layout Engine: the layout effect (lines 58-128) *)

LabelWidth == 96             \* px-3, text-xs: the width of "Item - 100 kcal"
LabelHeight == 28            \* py-1.5, text-xs: 6 + 16 + 6
LabelGap == 8                \* mb-2
maxAttempts == 30
ShiftStep == 5               \* topOffset -= 5

NoStyles == {}
NoDeps == [boxes |-> <<>>, size |-> [width |-> 0, height |-> 0, offsetX |-> 0, offsetY |-> 0]]
NoPass == [labels |-> <<>>, placedRects |-> <<>>, deps |-> NoDeps]

\* the deps of the render that runs the effect: what its timer's closure holds
Deps == [boxes |-> boxes, size |-> imgRenderedSize]

\* line 328: the boxes that render a label
HasLabel(b) == ~isEditing /\ b.name # "" /\ b.calories # 0

\* lines 69-71: the ids in labelRefs when the timer fires
allLabels == {boxes[i].id : i \in {j \in 1..Len(boxes) : HasLabel(boxes[j])}}

DOMRect(x, y, width, height) ==
    [x |-> x, y |-> y, width |-> width, height |-> height,
     left |-> x, top |-> y, right |-> x + width, bottom |-> y + height]

\* the label where the style sheet puts it: centred above its box
\* (bottom-full left-1/2 -translate-x-1/2 mb-2)
NaturalRect(bb) ==
    LET s == toScreenStyle(bb)
    IN  DOMRect(s.left + s.width \div 2 - LabelWidth \div 2,
                s.top - LabelGap - LabelHeight, LabelWidth, LabelHeight)

\* line 335: the translateY the label carries from labelStyles
AppliedOffset(id) ==
    IF \E r \in labelStyles : r.id = id
    THEN (CHOOSE r \in labelStyles : r.id = id).topOffset
    ELSE 0

\* line 85: the rectangle of the label element as it is on screen
getBoundingClientRect(id) ==
    LET n == NaturalRect(Find(boxes, id).boundingBox)
    IN  DOMRect(n.x, n.y + AppliedOffset(id), n.width, n.height)

\* lines 100-105
hasCollision(adjustedRect, placedRects) ==
    \E k \in 1..Len(placedRects) :
        ~( \/ adjustedRect.right < placedRects[k].left
           \/ adjustedRect.left > placedRects[k].right
           \/ adjustedRect.bottom < placedRects[k].top
           \/ adjustedRect.top > placedRects[k].bottom )

\* lines 92-97
adjustedRect(initialRect, topOffset) ==
    DOMRect(initialRect.x, initialRect.y + topOffset, initialRect.width, initialRect.height)

\* lines 90-115: the value of `attempts` when the while loop ends
Attempts(initialRect, placedRects) ==
    LET clear == {k \in 0..(maxAttempts - 1) :
                    ~hasCollision(adjustedRect(initialRect, -ShiftStep * k), placedRects)}
    IN  IF clear = {} THEN maxAttempts
        ELSE CHOOSE k \in clear : \A j \in clear : k <= j

\* line 79: [...boxes].sort((a, b) => a.boundingBox.y - b.boundingBox.y), a stable sort
RECURSIVE sortedBoxes(_)
sortedBoxes(bs) ==
    IF bs = <<>> THEN <<>>
    ELSE LET front == sortedBoxes(SubSeq(bs, 1, Len(bs) - 1))
             b == bs[Len(bs)]
             k == Cardinality({i \in 1..Len(front) :
                                 front[i].boundingBox.y <= b.boundingBox.y})
         IN  SubSeq(front, 1, k) \o <<b>> \o SubSeq(front, k + 1, Len(front))

\* lines 81-123: the for loop from the i-th sorted box on; acc holds
\* placedRects, newStyles and, as a record of the pass, each processed label
RECURSIVE PlaceLabels(_, _, _)
PlaceLabels(sorted, i, acc) ==
    IF i > Len(sorted) THEN acc
    ELSE IF sorted[i].id \notin allLabels THEN PlaceLabels(sorted, i + 1, acc)
    ELSE LET initialRect == getBoundingClientRect(sorted[i].id)
             attempts == Attempts(initialRect, acc.placedRects)
             topOffset == -ShiftStep * attempts
         IN  PlaceLabels(sorted, i + 1,
                [placedRects |->
                    IF attempts < maxAttempts
                    THEN Append(acc.placedRects, adjustedRect(initialRect, topOffset))
                    ELSE acc.placedRects,
                 newStyles |->
                    IF topOffset # 0
                    THEN acc.newStyles \cup
                           {[id |-> sorted[i].id, topOffset |-> topOffset,
                             zIndex |-> 100 - attempts]}
                    ELSE acc.newStyles,
                 labels |-> Append(acc.labels,
                    [id |-> sorted[i].id, initialRect |-> initialRect,
                     attempts |-> attempts])])

\* the effect without its cleanup: an earlier timer stays scheduled
LabelEffectNoCleanup(rerun) ==
    IF ~rerun THEN UNCHANGED <<labelStyles, timers>>
    ELSE IF isEditing' \/ Len(boxes') = 0 \/ isLoading'
         THEN labelStyles' = NoStyles /\ timers' = timers
         ELSE timers' = timers \cup {Deps'} /\ UNCHANGED labelStyles

\* the effect leaving the placements in place when it skips the layout
LabelEffectKeepingStyles(rerun) ==
    IF ~rerun THEN UNCHANGED <<labelStyles, timers>>
    ELSE IF isEditing' \/ Len(boxes') = 0 \/ isLoading'
         THEN timers' = {} /\ UNCHANGED labelStyles
         ELSE timers' = {Deps'} /\ UNCHANGED labelStyles

\* lines 58-68 and 127: the effect after a render.  It runs again (rerun) when
\* one of boxes, isEditing, isLoading, imgRenderedSize is a new value or a new
\* object; its cleanup clears the timer of the earlier run.
LabelEffect(rerun) ==
    IF ~rerun THEN UNCHANGED <<labelStyles, timers>>
    ELSE IF isEditing' \/ Len(boxes') = 0 \/ isLoading'
         THEN labelStyles' = NoStyles /\ timers' = {}
         ELSE timers' = {Deps'} /\ UNCHANGED labelStyles

----------------------------------------------------------------------------
(* App: identification (handleIdentify) *)

\* one result of the service for some of the submitted ids
Results(bs) == [Ids(bs) -> {"none", "item"}]

\* lines 88-91: map the captured boxes to the results, drop those without name and calories
updatedBoxes(captured, results) ==
    LET mapped == [i \in 1..Len(captured) |->
                      IF results[captured[i].id] = "item"
                      THEN [captured[i] EXCEPT !.name = "item", !.calories = 100]
                      ELSE captured[i]]
        named(b) == b.name # "" /\ b.calories # 0
    IN  SelectSeq(mapped, named)

----------------------------------------------------------------------------
(* Inputs *)

\* client positions of the pointer, in pixels
Points ==
    { <<10, 70>>,      \* the image's corner (0, 0)
      <<70, 110>>,     \* (0.15, 0.20)
      <<409, 269>>,    \* one pixel inside the image's far corner
      <<410, 270>> }   \* the image's far corner (1, 1)

\* client positions of the first finger: on a box body or handle or on the
\* canvas, according to the collection
TouchPoints == { <<70, 110>>, <<410, 270>> }

\* client positions around the box of ResizeBoxes: its centre, its four
\* corners (where the handles sit) and the image's two far corners
ResizePoints ==
    { <<90, 110>>,
      <<50, 90>>, <<130, 90>>, <<50, 130>>, <<130, 130>>,
      <<10, 70>>, <<410, 270>> }

\* the positions off the container's left and top border lines: on those
\* lines an unset render geometry makes the quotient 0/0
EarlyPoints == {p \in Points : p[1] # RectLeft /\ p[2] # RectTop}

\* collections the detection step can hand over (App.tsx lines 51-55);
\* their ids come from uuid() too and differ from every later one
InitialBoxes ==
    { <<>>,
      <<UserBox(101, BoundingBox(120, 120, 240, 240)),
        UserBox(102, BoundingBox(600, 600, 3, 6))>> }

\* one detected box in the middle of the image (50..130 x 90..130 px)
ResizeBoxes == { <<UserBox(101, BoundingBox(120, 120, 240, 240))>> }

\* n detected boxes on the same region
Stack(n) == [i \in 1..n |-> UserBox(100 + i, BoundingBox(300, 300, 240, 240))]

\* collections whose labels meet: boxes on one region, two boxes 18px apart
\* (their 28px labels share 10px), two boxes far from each other, one box
LabelStores ==
    { Stack(7),
      Stack(3),
      <<UserBox(101, BoundingBox(300, 408, 240, 240)),
        UserBox(102, BoundingBox(300, 300, 240, 240))>>,
      <<UserBox(101, BoundingBox(0, 600, 240, 240)),
        UserBox(102, BoundingBox(900, 300, 240, 240))>>,
      <<UserBox(101, BoundingBox(120, 120, 240, 240))>> }

\* offsetWidth and offsetHeight of the container (aspect-[4/3]) at two window sizes
Containers == { <<ContainerWidth, ContainerHeight>>, <<600, 450>> }

\* container sizes from a wide window down to a narrow frame (aspect-[4/3]),
\* and the container before its first layout (height 0)
SmallContainers ==
    { <<400, 300>>, <<640, 480>>, <<800, 600>>, <<160, 120>>, <<120, 90>>, <<80, 60>>,
      <<400, 0>> }

\* natural sizes of the image (naturalWidth, naturalHeight), from 4:1 to 1:5
ImageSizes ==
    { [width |-> 800, height |-> 400], [width |-> 400, height |-> 800],
      [width |-> 400, height |-> 300], [width |-> 500, height |-> 500],
      [width |-> 800, height |-> 200], [width |-> 200, height |-> 1000] }

NoDimensions == [width |-> 0, height |-> 0]      \* imageDimensions === null
UnsetSize == [width |-> 0, height |-> 0, offsetX |-> 0, offsetY |-> 0]   \* line 23

NoPointer == [dev |-> "none"]
\* pos: where the pointer was, <<>> for an event that carries no position;
\* styled, timed: placements were applied, a timer was scheduled when it arrived
Event(ev, called, pos) ==
    [ev |-> ev, from |-> interaction.mode, called |-> called, pos |-> pos,
     styled |-> labelStyles # NoStyles, timed |-> timers # {}]
NoPre == [ok |-> FALSE, boxes |-> <<>>]

\* the display as its useState calls leave it, inside App in stage 'editing'
Constructed(budget, stores) ==
    /\ stage = "editing"
    /\ userBoxes \in stores
    /\ error = FALSE
    /\ pending = <<>>
    /\ activeBoxId = 0
    /\ interaction = None
    /\ labelStyles = NoStyles
    /\ timers = {}
    /\ pass = NoPass
    /\ nextId = 1
    /\ held = NoPointer
    /\ gestures = budget
    /\ pre = NoPre

\* the state after the mount effects: the render geometry is computed, the
\* label effect found editing mode and scheduled nothing
Mounted(budget, stores) ==
    /\ Constructed(budget, stores)
    /\ imageDimensions = [width |-> ImageWidth, height |-> ImageHeight]
    /\ container = <<ContainerWidth, ContainerHeight>>
    /\ imgRenderedSize =
          calculateImageRenderSize(ContainerWidth, ContainerHeight, ImageWidth, ImageHeight)
    /\ hist = [ev |-> "mount", from |-> "none", called |-> FALSE, pos |-> <<>>,
               styled |-> FALSE, timed |-> FALSE]

InitWith(budget) == Mounted(budget, InitialBoxes)

Init == InitWith(MaxGestures)

InitLong == InitWith(LongGestures)

InitLabels == Mounted(0, LabelStores)

InitResize == Mounted(ResizeGestures, ResizeBoxes)

InitApp == InitWith(AppGestures)

\* the display right after construction, before its mount effects, with the
\* values its prop imageDimensions can take
InitMount ==
    /\ Constructed(MountGestures, InitialBoxes)
    /\ imageDimensions \in {NoDimensions, [width |-> ImageWidth, height |-> ImageHeight]}
    /\ container = <<ContainerWidth, ContainerHeight>>
    /\ imgRenderedSize = UnsetSize
    /\ hist = [ev |-> "construct", from |-> "none", called |-> FALSE, pos |-> <<>>,
               styled |-> FALSE, timed |-> FALSE]

\* the display right after construction with an image of any natural size,
\* in a container of any size
InitGeometry ==
    /\ Constructed(0, {<<>>})
    /\ imageDimensions \in ImageSizes
    /\ container \in SmallContainers
    /\ imgRenderedSize = UnsetSize
    /\ hist = [ev |-> "construct", from |-> "none", called |-> FALSE, pos |-> <<>>,
               styled |-> FALSE, timed |-> FALSE]

App == <<stage, imageDimensions, error, pending>>

----------------------------------------------------------------------------
(* Events of the display (bindings, lines 260-270) *)

\* onMouseDown; a second button goes down where the pointer is
MouseDown(p) ==
    /\ gestures > 0
    /\ gestures' = gestures - 1
    /\ held.dev \in {"none", "mouse"}
    /\ held.dev = "mouse" => p = held.pos
    /\ isEditing
    /\ HitTest(p) # Button            \* the button stops propagation
    /\ UNCHANGED <<App, container, imgRenderedSize, pass>>
    /\ \E called \in BOOLEAN :
          /\ handleInteractionStart(p, HitTest(p), called)
          /\ hist' = Event("mousedown", called, p)
          /\ LabelEffect(called)
    /\ held' = [dev |-> "mouse", pos |-> p]
    /\ pre' = [ok |-> TRUE, boxes |-> boxes]

\* onMouseMove
MouseMove(p) ==
    /\ held.dev \in {"none", "mouse"}
    /\ interaction.mode # "none"
    /\ isEditing
    /\ UNCHANGED <<App, container, imgRenderedSize, pass, gestures, pre>>
    /\ handleInteractionMove(p)
    /\ hist' = Event("mousemove", TRUE, p)
    /\ LabelEffect(TRUE)
    /\ held' = IF held.dev = "mouse" THEN [held EXCEPT !.pos = p] ELSE held

\* onMouseUp
MouseUp ==
    /\ displayed
    /\ held.dev \in {"none", "mouse"}
    /\ UNCHANGED <<App, container, imgRenderedSize, pass, gestures, pre>>
    /\ \E called \in BOOLEAN :
          /\ handleInteractionEnd(called)
          /\ hist' = Event("mouseup", called, <<>>)
          /\ LabelEffect(called)
    /\ held' = NoPointer

\* onMouseLeave
MouseLeave ==
    /\ displayed
    /\ held.dev \in {"none", "mouse"}
    /\ UNCHANGED <<App, container, imgRenderedSize, pass, gestures, pre>>
    /\ \E called \in BOOLEAN :
          /\ handleInteractionEnd(called)
          /\ hist' = Event("mouseleave", called, <<>>)
          /\ LabelEffect(called)
    /\ held' = NoPointer

\* onTouchStart: e.touches[0] is the first finger, with the element it went down on
TouchStart(p) ==
    /\ gestures > 0
    /\ gestures' = gestures - 1
    /\ held.dev \in {"none", "touch"}
    /\ held.dev = "touch" => p = held.pos
    /\ isEditing
    /\ UNCHANGED <<App, container, imgRenderedSize, pass>>
    /\ LET target == IF held.dev = "touch" THEN held.target ELSE HitTest(p)
       IN  /\ target # Button
           /\ \E called \in BOOLEAN :
                 /\ handleInteractionStart(p, target, called)
                 /\ hist' = Event("touchstart", called, p)
                 /\ LabelEffect(called)
           /\ held' = [dev |-> "touch", pos |-> p, target |-> target]
    /\ pre' = [ok |-> TRUE, boxes |-> boxes]

\* onTouchMove
TouchMove(p) ==
    /\ held.dev = "touch"
    /\ interaction.mode # "none"
    /\ isEditing
    /\ UNCHANGED <<App, container, imgRenderedSize, pass, gestures, pre>>
    /\ handleInteractionMove(p)
    /\ hist' = Event("touchmove", TRUE, p)
    /\ LabelEffect(TRUE)
    /\ held' = [held EXCEPT !.pos = p]

\* onTouchEnd
TouchEnd ==
    /\ displayed
    /\ held.dev = "touch"
    /\ UNCHANGED <<App, container, imgRenderedSize, pass, gestures, pre>>
    /\ \E called \in BOOLEAN :
          /\ handleInteractionEnd(called)
          /\ hist' = Event("touchend", called, <<>>)
          /\ LabelEffect(called)
    /\ held' = NoPointer

\* touchcancel: the container binds no handler for it
TouchCancel ==
    /\ held.dev = "touch"
    /\ hist' = Event("touchcancel", FALSE, <<>>)
    /\ held' = NoPointer
    /\ UNCHANGED <<App, container, userBoxes, imgRenderedSize, activeBoxId, interaction,
                   labelStyles, timers, pass, nextId, gestures, pre>>

\* the delete button of the active box (onClick, onTouchStart)
Delete ==
    /\ isEditing
    /\ activeBoxId \in Ids(boxes)
    /\ UNCHANGED <<App, container, imgRenderedSize, pass, activeBoxId, interaction, nextId,
                   held, gestures, pre>>
    /\ handleDelete(activeBoxId)
    /\ hist' = Event("delete", TRUE, <<>>)
    /\ LabelEffect(TRUE)

\* calculateImageRenderSize (lines 30-50) on the container as it now measures,
\* and the render that follows setImgRenderedSize
Recalculate(measured) ==
    IF imageDimensions = NoDimensions
    THEN UNCHANGED <<imgRenderedSize, labelStyles, timers>>
    ELSE /\ imgRenderedSize' =
               calculateImageRenderSize(measured[1], measured[2],
                                        imageDimensions.width, imageDimensions.height)
         /\ LabelEffect(TRUE)

\* the mount effects (lines 52-56 and the first run of the label effect)
MountEffect ==
    /\ hist.ev = "construct"
    /\ UNCHANGED <<App, container, userBoxes, pass, activeBoxId, interaction, nextId,
                   held, gestures, pre>>
    /\ Recalculate(container)
    /\ hist' = Event("mount", FALSE, <<>>)

\* the window's resize event (line 54)
WindowResize(measured) ==
    /\ displayed
    /\ hist.ev # "construct"
    /\ container' = measured
    /\ UNCHANGED <<App, userBoxes, pass, activeBoxId, interaction, nextId,
                   held, gestures, pre>>
    /\ Recalculate(measured)
    /\ hist' = Event("resize", FALSE, <<>>)

\* LayoutPass adding the new placements to those of the earlier passes
LayoutPassMerging(timer) ==
    /\ timer \in timers
    /\ timers' = timers \ {timer}
    /\ IF allLabels = {}
       THEN UNCHANGED <<labelStyles, pass>>
       ELSE LET done == PlaceLabels(sortedBoxes(timer.boxes), 1,
                           [placedRects |-> <<>>, newStyles |-> {}, labels |-> <<>>])
            IN  /\ labelStyles' = labelStyles \cup done.newStyles
                /\ pass' = [labels |-> done.labels, placedRects |-> done.placedRects,
                            deps |-> timer]
    /\ hist' = Event("layout", FALSE, <<>>)
    /\ UNCHANGED <<App, container, userBoxes, imgRenderedSize, activeBoxId, interaction, nextId,
                   held, gestures, pre>>

\* the timer of the label effect fires (lines 68-125)
LayoutPass(timer) ==
    /\ timer \in timers
    /\ timers' = timers \ {timer}
    /\ IF allLabels = {}
       THEN UNCHANGED <<labelStyles, pass>>
       ELSE LET done == PlaceLabels(sortedBoxes(timer.boxes), 1,
                           [placedRects |-> <<>>, newStyles |-> {}, labels |-> <<>>])
            IN  /\ labelStyles' = done.newStyles
                /\ pass' = [labels |-> done.labels, placedRects |-> done.placedRects,
                            deps |-> timer]
    /\ hist' = Event("layout", FALSE, <<>>)
    /\ UNCHANGED <<App, container, userBoxes, imgRenderedSize, activeBoxId, interaction, nextId,
                   held, gestures, pre>>

----------------------------------------------------------------------------
(* Events of the App *)

\* the Identify button: handleIdentify up to its await
HandleIdentify ==
    /\ stage \in {"editing", "results"}
    /\ Len(userBoxes) # 0
    /\ stage' = "analyzing"
    /\ error' = FALSE
    /\ pending' = userBoxes
    /\ hist' = Event("identify", FALSE, <<>>)
    /\ UNCHANGED <<imageDimensions, container, userBoxes, imgRenderedSize, pass, activeBoxId,
                   interaction, nextId, held, gestures, pre>>
    /\ LabelEffect(TRUE)

\* handleIdentify after the await, the service answered
IdentifyResolve(results) ==
    /\ stage = "analyzing"
    /\ userBoxes' = updatedBoxes(pending, results)
    /\ stage' = "results"
    /\ pending' = <<>>
    /\ hist' = Event("resolve", FALSE, <<>>)
    /\ pre' = NoPre
    /\ UNCHANGED <<imageDimensions, container, error, imgRenderedSize, pass, activeBoxId,
                   interaction, nextId, held, gestures>>
    /\ LabelEffect(TRUE)

\* handleIdentify after the await, the service failed
IdentifyReject ==
    /\ stage = "analyzing"
    /\ error' = TRUE
    /\ stage' = "editing"
    /\ pending' = <<>>
    /\ hist' = Event("reject", FALSE, <<>>)
    /\ UNCHANGED <<imageDimensions, container, userBoxes, imgRenderedSize, pass, activeBoxId,
                   interaction, nextId, held, gestures, pre>>
    /\ LabelEffect(TRUE)

\* the Start Over button (disabled while analyzing): handleReset, and the
\* display is unmounted, its state discarded and its timer cleared
HandleReset ==
    /\ stage \in {"editing", "results"}
    /\ stage' = "upload"
    /\ userBoxes' = <<>>
    /\ error' = FALSE
    /\ imageDimensions' = NoDimensions
    /\ imgRenderedSize' = UnsetSize
    /\ activeBoxId' = 0
    /\ interaction' = None
    /\ labelStyles' = NoStyles
    /\ timers' = {}
    /\ hist' = Event("reset", FALSE, <<>>)
    /\ UNCHANGED <<pending, container, pass, nextId, held, gestures, pre>>

----------------------------------------------------------------------------

\* the behaviours of the editor: pointer, touch, delete and identification
Next ==
    \/ \E p \in Points : MouseDown(p)
    \/ \E p \in Points : MouseMove(p)
    \/ MouseUp
    \/ MouseLeave
    \/ \E p \in TouchPoints : TouchStart(p)
    \/ \E p \in TouchPoints : TouchMove(p)
    \/ TouchEnd
    \/ TouchCancel
    \/ Delete
    \/ HandleIdentify
    \/ \E results \in Results(pending) : IdentifyResolve(results)
    \/ IdentifyReject

Spec == Init /\ [][Next]_vars

\* one mouse button and nothing else, pressed only when no gesture is live:
\* longer runs of plain gestures
NextMouse ==
    \/ \E p \in Points : interaction.mode = "none" /\ MouseDown(p)
    \/ \E p \in Points : MouseMove(p)
    \/ MouseUp

SpecMouse == InitLong /\ [][NextMouse]_vars

\* one mouse button on a box and its four handles: select, then resize
NextResize ==
    \/ \E p \in ResizePoints : interaction.mode = "none" /\ MouseDown(p)
    \/ \E p \in ResizePoints : MouseMove(p)
    \/ MouseUp

SpecResize == InitResize /\ [][NextResize]_vars

\* the editor inside the App: one gesture, identification and Start Over
NextApp ==
    \/ Next
    \/ HandleReset

SpecApp == InitApp /\ [][NextApp]_vars

\* the display from its construction on: the mount effects run first, then
\* the mouse and the window's resize events
NextMount ==
    \/ MountEffect
    \/ \E p \in EarlyPoints : hist.ev # "construct" /\ MouseDown(p)
    \/ \E p \in EarlyPoints : hist.ev # "construct" /\ MouseMove(p)
    \/ hist.ev # "construct" /\ MouseUp
    \/ \E measured \in Containers : WindowResize(measured)

SpecMount == InitMount /\ [][NextMount]_vars

\* the geometry mapper alone: the mount effect and the window's resize
\* events over the container sizes
NextGeometry ==
    \/ MountEffect
    \/ \E measured \in SmallContainers : WindowResize(measured)

SpecGeometry == InitGeometry /\ [][NextGeometry]_vars

\* the read-only display: identification, the layout timer and the window's
\* resize events on collections whose labels meet
NextLabels ==
    \/ HandleIdentify
    \/ \E results \in Results(pending) : IdentifyResolve(results)
    \/ IdentifyReject
    \/ \E timer \in timers : LayoutPass(timer)
    \/ \E measured \in Containers : WindowResize(measured)

SpecLabels == InitLabels /\ [][NextLabels]_vars

----------------------------------------------------------------------------
(* Vocabulary of the properties *)

DownEvents == {"mousedown", "touchstart"}
MoveEvents == {"mousemove", "touchmove"}
EndEvents == {"mouseup", "mouseleave", "touchend"}
PointerEvents == DownEvents \cup MoveEvents \cup EndEvents \cup {"touchcancel"}

\* the six inequalities of a BoundingBox
InBounds(bb) ==
    /\ 0 <= bb.x /\ 0 <= bb.y
    /\ bb.x + bb.width <= Scale /\ bb.y + bb.height <= Scale
    /\ bb.width >= 0 /\ bb.height >= 0

\* width >= 0.005 and height >= 0.005
AtLeastThreshold(bb) == bb.width * 1000 >= 5 * Scale /\ bb.height * 1000 >= 5 * Scale

\* width < 0.005 or height < 0.005
BelowThreshold(bb) == bb.width * 1000 < 5 * Scale \/ bb.height * 1000 < 5 * Scale

\* width > 0.005 and height > 0.005
Kept(b) == b.boundingBox.width * 1000 > 5 * Scale /\ b.boundingBox.height * 1000 > 5 * Scale

\* the box a Moving or Resizing gesture works on, before and after the step
GestureBox == Find(userBoxes, interaction.boxId).boundingBox
GestureBoxAfter == Find(userBoxes', interaction.boxId).boundingBox

\* the gesture's box id is no longer in the store
Stale == interaction.mode \in {"moving", "resizing"} /\ interaction.boxId \notin Ids(userBoxes)

\* a pointer move handled in the given mode on a box that is in the store
MoveStep(mode) ==
    /\ interaction.mode = mode
    /\ hist'.ev \in MoveEvents
    /\ interaction.boxId \in Ids(userBoxes)

\* a release that ends a Drawing gesture whose own box is in the store
DrawingRelease ==
    /\ interaction.mode = "drawing"
    /\ hist'.ev \in EndEvents
    /\ activeBoxId \in Ids(userBoxes)
    /\ pre.ok

\* the element the pointer-down of the step went down on
DownTarget == IF hist'.ev = "touchstart" THEN held'.target ELSE HitTest(hist'.pos)

\* a pointer-down on the empty canvas while the interaction state is Idle
CanvasDown ==
    /\ hist'.ev \in DownEvents
    /\ interaction.mode = "none"
    /\ DownTarget = Canvas

\* the id of the box the latest canvas pointer-down created
DrawnId == nextId - 1

\* a pointer move handled by a Drawing gesture whose box is in the store
DrawingStep ==
    /\ interaction.mode = "drawing"
    /\ hist'.ev \in MoveEvents
    /\ DrawnId \in Ids(userBoxes)

\* the edges of a Resizing step: the edge the handle leaves fixed and the
\* edge it drags (the original edge plus the pointer delta), on each axis
FixedX ==
    IF Includes(interaction.handle, "left")
    THEN interaction.startBox.x + interaction.startBox.width
    ELSE interaction.startBox.x
DraggedX ==
    LET dx == toImageCoords(hist'.pos[1], hist'.pos[2]).x - interaction.startX
    IN  IF Includes(interaction.handle, "left")
        THEN interaction.startBox.x + dx
        ELSE interaction.startBox.x + interaction.startBox.width + dx
FixedY ==
    IF Includes(interaction.handle, "top")
    THEN interaction.startBox.y + interaction.startBox.height
    ELSE interaction.startBox.y
DraggedY ==
    LET dy == toImageCoords(hist'.pos[1], hist'.pos[2]).y - interaction.startY
    IN  IF Includes(interaction.handle, "top")
        THEN interaction.startBox.y + dy
        ELSE interaction.startBox.y + interaction.startBox.height + dy

\* the dragged edge has passed the fixed one
PassedX ==
    IF Includes(interaction.handle, "left") THEN DraggedX > FixedX ELSE DraggedX < FixedX
PassedY ==
    IF Includes(interaction.handle, "top") THEN DraggedY > FixedY ELSE DraggedY < FixedY

\* the geometry mapper has what it needs: the image's natural size and a
\* render geometry with positive width and height
GeometryKnown ==
    /\ imageDimensions # NoDimensions
    /\ imgRenderedSize.width > 0
    /\ imgRenderedSize.height > 0

\* the height the geometry is computed for when the fallback (500px) stands
\* in for a degenerate measured height only
FallbackHeight == 500
EffectiveHeight == IF container[2] = 0 THEN FallbackHeight ELSE container[2]

\* calculateImageRenderSize has run on the current container
Computed == hist.ev \in {"mount", "resize"} /\ imageDimensions # NoDimensions

\* ids are handed out in order: the detected boxes (above 100) come first,
\* then the drawn ones
InsertionRank(id) == IF id > 100 THEN id - 1000 ELSE id
InsertedBefore(a, b) == InsertionRank(a) < InsertionRank(b)

\* the axis-aligned overlap test on two rectangles
Overlap(a, b) ==
    ~(a.right < b.left \/ a.left > b.right \/ a.bottom < b.top \/ a.top > b.bottom)

\* a layout pass has just written the placements
AfterLayout == hist.ev = "layout" /\ Len(pass.labels) > 0

\* the labels the latest pass measured, and the shift attempts it spent on one
Measured == {pass.labels[k].id : k \in 1..Len(pass.labels)}
ShiftAttempts(id) ==
    pass.labels[CHOOSE k \in 1..Len(pass.labels) : pass.labels[k].id = id].attempts

\* every label of the latest pass found a position within its attempts
AllPlaced == \A k \in 1..Len(pass.labels) : pass.labels[k].attempts < maxAttempts

\* the offset the latest pass computed for a label: -5px per attempt
PassOffset(id) == -ShiftStep * ShiftAttempts(id)

\* the natural rectangle of a label shifted by the offset recorded for it
FinalRect(id) ==
    LET n == NaturalRect(Find(userBoxes, id).boundingBox)
    IN  DOMRect(n.x, n.y + AppliedOffset(id), n.width, n.height)

----------------------------------------------------------------------------
(* Properties *)

\* C1: starting from boxes that satisfy the six inequalities, after any
\* completed gesture (a release that ends Drawing, Moving or Resizing) every
\* box in the store satisfies the six inequalities.
C1_BoxesInBoundsAfterGesture ==
    (hist.ev \in EndEvents /\ hist.from # "none") =>
        \A i \in 1..Len(userBoxes) : InBounds(userBoxes[i].boundingBox)

\* C2: a pointer-down that arrives while the interaction state is Drawing,
\* Moving or Resizing changes neither the interaction state nor the store.
C2_PointerDownOnlyFromIdle ==
    [][(hist'.ev \in DownEvents /\ interaction.mode # "none") =>
          (interaction' = interaction /\ userBoxes' = userBoxes)]_vars

\* C3: right after the release that ends a Drawing or Resizing gesture, every
\* box in the store has width >= 0.005 and height >= 0.005 (a smaller box is
\* not in the store).
C3_NoSmallBoxAfterRelease ==
    (hist.ev \in EndEvents /\ hist.from \in {"drawing", "resizing"}) =>
        \A i \in 1..Len(userBoxes) : AtLeastThreshold(userBoxes[i].boundingBox)

\* C3 witness: a release ended a Drawing gesture and discarded a box, and a
\* box is left in the store
C3_Witness ==
    /\ hist.ev \in EndEvents
    /\ hist.from = "drawing"
    /\ hist.called
    /\ Len(userBoxes) > 0

C5_MovingKeepsSizeInsideImage ==
    [][MoveStep("moving") =>
          LET b == GestureBoxAfter
              s == interaction.startBox
              c == toImageCoords(hist'.pos[1], hist'.pos[2])
              nx == s.x + (c.x - interaction.startX)
              ny == s.y + (c.y - interaction.startY)
          IN  /\ b.width = s.width /\ b.height = s.height
              /\ 0 <= b.x /\ b.x <= Scale - b.width
              /\ 0 <= b.y /\ b.y <= Scale - b.height
              /\ (0 <= nx /\ nx <= Scale - s.width) => b.x = nx
              /\ (0 <= ny /\ ny <= Scale - s.height) => b.y = ny]_vars

\* C6 as stated: on every pointer move of a Resizing gesture with the
\* bottom-right handle the box's x and y equal those it had at pointer-down.
C6_BottomRightKeepsOrigin ==
    [][(MoveStep("resizing") /\ interaction.handle = "bottom-right") =>
          /\ GestureBoxAfter.x = interaction.startBox.x
          /\ GestureBoxAfter.y = interaction.startBox.y]_vars

\* C6 amended: on every pointer move of a Resizing gesture with the
\* bottom-right handle, x equals the x at pointer-down as long as the pointer
\* has not been dragged left by more than the original width; once it has,
\* the box is flipped and its right edge x+width equals that x.  The same
\* holds for y with the height and the bottom edge.
C6_BottomRightKeepsOriginUnlessFlipped ==
    [][(MoveStep("resizing") /\ interaction.handle = "bottom-right") =>
          LET b == GestureBoxAfter
              s == interaction.startBox
              c == toImageCoords(hist'.pos[1], hist'.pos[2])
              w == s.width + (c.x - interaction.startX)
              h == s.height + (c.y - interaction.startY)
          IN  /\ w >= 0 => (b.x = s.x /\ b.width = w)
              /\ w < 0 => (b.x + b.width = s.x /\ b.width = -w)
              /\ h >= 0 => (b.y = s.y /\ b.height = h)
              /\ h < 0 => (b.y + b.height = s.y /\ b.height = -h)]_vars

\* C6 witness: a bottom-right resize has changed the box's width and height
\* and left its x and y alone
C6_Witness ==
    /\ interaction.mode = "resizing"
    /\ interaction.handle = "bottom-right"
    /\ hist.ev \in MoveEvents
    /\ interaction.boxId \in Ids(userBoxes)
    /\ GestureBox.x = interaction.startBox.x
    /\ GestureBox.y = interaction.startBox.y
    /\ GestureBox.width # interaction.startBox.width
    /\ GestureBox.height # interaction.startBox.height
    /\ GestureBox.width > 0
    /\ GestureBox.height > 0

\* C7 as stated: on every pointer move of a Resizing gesture with the top-left
\* handle the box's bottom-right corner equals the one it had at pointer-down.
C7_TopLeftKeepsCorner ==
    [][(MoveStep("resizing") /\ interaction.handle = "top-left") =>
          /\ GestureBoxAfter.x + GestureBoxAfter.width =
                interaction.startBox.x + interaction.startBox.width
          /\ GestureBoxAfter.y + GestureBoxAfter.height =
                interaction.startBox.y + interaction.startBox.height]_vars

\* C7 amended: on every pointer move of a Resizing gesture with the top-left
\* handle, the right edge x+width equals the one at pointer-down as long as
\* the pointer has not been dragged right by more than the original width;
\* once it has, the box is flipped and its left edge x equals that right
\* edge.  The same holds for the bottom edge y+height.
C7_TopLeftKeepsCornerUnlessFlipped ==
    [][(MoveStep("resizing") /\ interaction.handle = "top-left") =>
          LET b == GestureBoxAfter
              s == interaction.startBox
              c == toImageCoords(hist'.pos[1], hist'.pos[2])
              w == s.width - (c.x - interaction.startX)
              h == s.height - (c.y - interaction.startY)
          IN  /\ w >= 0 => (b.x + b.width = s.x + s.width /\ b.width = w)
              /\ w < 0 => (b.x = s.x + s.width /\ b.width = -w)
              /\ h >= 0 => (b.y + b.height = s.y + s.height /\ b.height = h)
              /\ h < 0 => (b.y = s.y + s.height /\ b.height = -h)]_vars

\* C7 witness: a top-left resize has moved the box's corner (x, y) and left
\* its bottom-right corner alone
C7_Witness ==
    /\ interaction.mode = "resizing"
    /\ interaction.handle = "top-left"
    /\ hist.ev \in MoveEvents
    /\ interaction.boxId \in Ids(userBoxes)
    /\ GestureBox.x # interaction.startBox.x
    /\ GestureBox.y # interaction.startBox.y
    /\ GestureBox.width > 0
    /\ GestureBox.height > 0
    /\ GestureBox.x + GestureBox.width = interaction.startBox.x + interaction.startBox.width
    /\ GestureBox.y + GestureBox.height = interaction.startBox.y + interaction.startBox.height

\* C8: while editing mode is disabled the interaction state is Idle, and no
\* pointer event (down, move, up, leave) changes the store.
C8_ReadOnlyIsIdle ==
    /\ [](~isEditing => interaction.mode = "none")
    /\ [][(~isEditing /\ hist'.ev \in DownEvents \cup MoveEvents \cup EndEvents) =>
             userBoxes' = userBoxes]_vars

\* C9 as stated: when a Moving or Resizing gesture refers to a box id that is
\* no longer in the store, the next pointer event of the gesture (a move or a
\* release) sets the interaction state to Idle and does not call onBoxesChange.
C9_StaleGestureAborts ==
    [][(Stale /\ hist'.ev \in MoveEvents \cup EndEvents) =>
          (interaction'.mode = "none" /\ ~hist'.called)]_vars

\* C9 amended: when a Moving or Resizing gesture refers to a box id that is no
\* longer in the store, every pointer move of the gesture leaves the contents
\* of the store and the interaction state as they are (onBoxesChange receives
\* a collection equal to the current one); the interaction state returns to
\* Idle at the release, which leaves the store as it is after Moving.
C9_StaleGestureIsInert ==
    [][Stale =>
          /\ hist'.ev \in MoveEvents => (userBoxes' = userBoxes /\ interaction' = interaction)
          /\ hist'.ev \in EndEvents => interaction'.mode = "none"
          /\ (hist'.ev \in EndEvents /\ interaction.mode = "moving") => userBoxes' = userBoxes
      ]_vars

\* C9 witness: a pointer move was handled by a gesture whose box is gone, and
\* other boxes are in the store
C9_Witness ==
    /\ Stale
    /\ hist.ev \in MoveEvents
    /\ hist.from = interaction.mode
    /\ Len(userBoxes) > 0

\* C10: after a release, a cancel or the pointer leaving the surface, for
\* mouse and for touch, the interaction state is Idle.
C10_ReleaseCancelLeaveEndIdle ==
    hist.ev \in EndEvents \cup {"touchcancel"} => interaction.mode = "none"

C12_DistinctIdsInInsertionOrder ==
    \A i, j \in 1..Len(userBoxes) :
        i < j => InsertedBefore(userBoxes[i].id, userBoxes[j].id)

\* C12 witness: a box was deleted, and a box drawn later stands behind a
\* detected box that remains
C12_Witness ==
    /\ hist.ev = "delete"
    /\ Len(userBoxes) >= 2
    /\ userBoxes[1].id > 100
    /\ userBoxes[Len(userBoxes)].id < 100

\* C13: within a gesture the store after a pointer move depends only on the
\* gesture's state and that move's position: handling a move and then a move
\* to p gives the store that the move to p alone gives, for every p (an
\* intermediate move can be dropped, a move can be delivered twice).
C13_MovesDependOnLastPosition ==
    [][hist'.ev \in MoveEvents =>
          \A p \in Points :
              MovedBoxes(toImageCoords(p[1], p[2]))' = MovedBoxes(toImageCoords(p[1], p[2]))
      ]_vars

\* C13 witness: a pointer move of a Moving gesture has displaced the box
C13_Witness ==
    /\ interaction.mode = "moving"
    /\ hist.ev \in MoveEvents
    /\ hist.from = "moving"
    /\ interaction.boxId \in Ids(userBoxes)
    /\ GestureBox.x # interaction.startBox.x
    /\ GestureBox.y # interaction.startBox.y

\* C14: a delete happens only in editing mode and only for the active box;
\* it removes exactly that box, leaves every other box as it is and in
\* order, and changes neither the interaction state nor the active box, and
\* starts no gesture.
C14_DeleteRemovesActiveBoxOnly ==
    [][hist'.ev = "delete" =>
          LET others(b) == b.id # activeBoxId
          IN  /\ isEditing
              /\ activeBoxId \in Ids(userBoxes)
              /\ userBoxes' = SelectSeq(userBoxes, others)
              /\ interaction' = interaction
              /\ gestures' = gestures]_vars

\* C14 witness: the active box was deleted while a box below the threshold
\* stays in the store
C14_Witness ==
    /\ hist.ev = "delete"
    /\ activeBoxId \notin Ids(userBoxes)
    /\ \E i \in 1..Len(userBoxes) : BelowThreshold(userBoxes[i].boundingBox)

\* C15: every scheduled layout timer belongs to the current render: no box
\* set, render geometry, editing flag or loading flag has changed since it
\* was scheduled, so a recomputation scheduled before an invalidating change
\* never writes placements after it and only the latest one can write.
C15_OnlyLatestTimerScheduled ==
    \A timer \in timers : timer = Deps /\ ~isEditing /\ ~isLoading

\* C15 witness: a window resize arrived while a timer was scheduled and
\* changed the render geometry, and a timer is scheduled again
C15_Witness ==
    /\ hist.ev = "resize"
    /\ hist.timed
    /\ timers # {}
    /\ imgRenderedSize.width # ContainerWidth

\* C16: whenever editing mode is active, the box set is empty or an analysis
\* is in progress, the label placements are empty and no layout pass is
\* scheduled.
C16_NoPlacementsOutsideResults ==
    (isEditing \/ Len(userBoxes) = 0 \/ isLoading) =>
        (labelStyles = NoStyles /\ timers = {})

\* C16 witness: editing mode was entered again (Identify Again failed) after
\* the latest layout pass had shifted a label, and no placement is left
C16_Witness ==
    /\ isEditing
    /\ hist.ev = "reject"
    /\ \E k \in 1..Len(pass.labels) : pass.labels[k].attempts > 0
    /\ labelStyles = NoStyles

\* C17: after a layout pass in which every label found a position within
\* its 30 attempts, the final rectangles of the measured labels (natural
\* rectangle shifted by the recorded offset) are pairwise non-overlapping.
C17_PlacedLabelsDoNotOverlap ==
    (AfterLayout /\ AllPlaced) =>
        \A a, b \in Measured : a # b => ~Overlap(FinalRect(a), FinalRect(b))

\* C18: in a layout pass the rectangle of every processed label, at the
\* offset the pass ended with, is in the placed set.
C18_EveryLabelCommitted ==
    AfterLayout =>
        \A k \in 1..Len(pass.labels) :
            \E r \in 1..Len(pass.placedRects) :
                pass.placedRects[r] =
                    adjustedRect(pass.labels[k].initialRect,
                                 -ShiftStep * pass.labels[k].attempts)

\* C19: of two labels that received a placement in the same layout pass, the
\* one with more shift attempts has the strictly greater z-index.
C19_MoreAttemptsHigherZIndex ==
    AfterLayout =>
        \A a, b \in labelStyles :
            ShiftAttempts(a.id) > ShiftAttempts(b.id) => a.zIndex > b.zIndex

\* C20: for two boxes whose labels' natural rectangles overlap by 10px
\* vertically, the layout pass leaves the label of the box with the smaller
\* y at offset 0 and gives the label of the box with the larger y a nonzero
\* upward offset, a multiple of 5px reached within 30 attempts, after which
\* the two label rectangles do not overlap.
C20_LowerLabelShiftedClear ==
    (AfterLayout /\ Len(userBoxes) = 2) =>
        \A i, j \in 1..2 :
            LET upper == userBoxes[i]
                lower == userBoxes[j]
                nu == NaturalRect(upper.boundingBox)
                nl == NaturalRect(lower.boundingBox)
            IN  ( /\ upper.boundingBox.y < lower.boundingBox.y
                  /\ Overlap(nu, nl)
                  /\ nu.bottom - nl.top = 10 )
                => /\ AppliedOffset(upper.id) = 0
                   /\ AppliedOffset(lower.id) < 0
                   /\ AppliedOffset(lower.id) % ShiftStep = 0
                   /\ ShiftAttempts(lower.id) < maxAttempts
                   /\ ~Overlap(FinalRect(upper.id), FinalRect(lower.id))

\* C21: when the layout pass runs again with the same box set and the same
\* render geometry as the previous pass (label sizes are fixed), it computes
\* for every label the offset the previous pass computed.
C21_RepeatedPassSameOffsets ==
    [][(hist'.ev = "layout" /\ Len(pass.labels) > 0 /\ pass'.deps = pass.deps) =>
          \A id \in Measured : PassOffset(id)' = PassOffset(id)]_vars

\* C22: for every container size and every positive image natural size the
\* computed render geometry keeps the image's aspect ratio, fits inside the
\* container's measured width and height with offsets >= 0 and the gap split
\* equally on both sides; the fallback height stands in for the measured
\* height only when the measured height is zero.
C22_RenderGeometryFitsContainer ==
    Computed =>
        /\ imgRenderedSize.width * imageDimensions.height =
              imgRenderedSize.height * imageDimensions.width
        /\ imgRenderedSize.width <= container[1]
        /\ imgRenderedSize.height <= EffectiveHeight
        /\ imgRenderedSize.offsetX >= 0 /\ imgRenderedSize.offsetY >= 0
        /\ 2 * imgRenderedSize.offsetX = container[1] - imgRenderedSize.width
        /\ 2 * imgRenderedSize.offsetY = EffectiveHeight - imgRenderedSize.height

\* C23: a pointer-down on empty canvas in editing mode from Idle appends
\* exactly one new box of width 0 and height 0 at the normalized pointer
\* position to the end of the store, makes it the active box and enters
\* Drawing with that position as anchor; the store with the zero-size box is
\* passed to onBoxesChange by the pointer-down itself.
C23_CanvasDownAppendsZeroBox ==
    [][CanvasDown =>
          LET c == toImageCoords(hist'.pos[1], hist'.pos[2])
          IN  /\ isEditing
              /\ Len(userBoxes') = Len(userBoxes) + 1
              /\ SubSeq(userBoxes', 1, Len(userBoxes)) = userBoxes
              /\ userBoxes'[Len(userBoxes')].boundingBox = BoundingBox(c.x, c.y, 0, 0)
              /\ userBoxes'[Len(userBoxes')].id \notin Ids(userBoxes)
              /\ activeBoxId' = userBoxes'[Len(userBoxes')].id
              /\ interaction' = [mode |-> "drawing", startX |-> c.x, startY |-> c.y]
              /\ hist'.called]_vars

\* C23 witness: a pointer-down from Idle has put a zero-size box behind the
\* boxes that were in the store; it is active and the gesture is Drawing
C23_Witness ==
    /\ hist.ev \in DownEvents
    /\ hist.from = "none"
    /\ hist.called
    /\ interaction.mode = "drawing"
    /\ pre.ok /\ Len(pre.boxes) > 0
    /\ Len(userBoxes) = Len(pre.boxes) + 1
    /\ userBoxes[Len(userBoxes)].id = activeBoxId
    /\ userBoxes[Len(userBoxes)].boundingBox.width = 0
    /\ userBoxes[Len(userBoxes)].boundingBox.height = 0

\* C24: during a Drawing gesture, after every pointer move the box the
\* gesture created is the rectangle spanning the anchor and the current
\* normalized pointer position (x and y the smaller values, width |dx|,
\* height |dy|), and every other box is as it was.
C24_DrawnBoxSpansAnchorAndPointer ==
    [][DrawingStep =>
          LET c == toImageCoords(hist'.pos[1], hist'.pos[2])
              ax == interaction.startX
              ay == interaction.startY
          IN  /\ Len(userBoxes') = Len(userBoxes)
              /\ \A i \in 1..Len(userBoxes) :
                    IF userBoxes[i].id = DrawnId
                    THEN /\ userBoxes'[i].id = DrawnId
                         /\ userBoxes'[i].boundingBox.x = (IF ax < c.x THEN ax ELSE c.x)
                         /\ userBoxes'[i].boundingBox.y = (IF ay < c.y THEN ay ELSE c.y)
                         /\ userBoxes'[i].boundingBox.width =
                               (IF c.x >= ax THEN c.x - ax ELSE ax - c.x)
                         /\ userBoxes'[i].boundingBox.height =
                               (IF c.y >= ay THEN c.y - ay ELSE ay - c.y)
                    ELSE userBoxes'[i] = userBoxes[i]]_vars

\* C24 witness: a Drawing gesture next to other boxes was dragged up and to
\* the left of its anchor
C24_Witness ==
    /\ interaction.mode = "drawing"
    /\ hist.ev \in MoveEvents
    /\ hist.from = "drawing"
    /\ Len(userBoxes) >= 3
    /\ DrawnId \in Ids(userBoxes)
    /\ Find(userBoxes, DrawnId).boundingBox.x < interaction.startX
    /\ Find(userBoxes, DrawnId).boundingBox.y < interaction.startY
    /\ Find(userBoxes, DrawnId).boundingBox.width > 0

\* C25 as stated: during a Resizing gesture the stored box has width >= 0
\* and height >= 0, and when the dragged edge passes the opposite edge the
\* box lies between the two with x (or y) at the dragged edge.
C25_FlippedOriginAtDraggedEdge ==
    [][MoveStep("resizing") =>
          LET b == GestureBoxAfter
          IN  /\ b.width >= 0 /\ b.height >= 0
              /\ PassedX => (b.x = DraggedX /\ b.x + b.width = FixedX)
              /\ PassedY => (b.y = DraggedY /\ b.y + b.height = FixedY)]_vars

\* C25 amended: during a Resizing gesture the stored box has width >= 0 and
\* height >= 0 and lies between the fixed opposite edge of the original box
\* and the dragged edge: x is the smaller of the two and x + width the
\* larger.  When the dragged edge passes the opposite edge, x is the dragged
\* edge for a right handle and the fixed edge for a left handle; the same
\* holds for y with bottom and top handles.
C25_ResizedBoxSpansFixedAndDraggedEdge ==
    [][MoveStep("resizing") =>
          LET b == GestureBoxAfter
              left == Includes(interaction.handle, "left")
              top == Includes(interaction.handle, "top")
          IN  /\ b.width >= 0 /\ b.height >= 0
              /\ b.x = (IF DraggedX < FixedX THEN DraggedX ELSE FixedX)
              /\ b.x + b.width = (IF DraggedX < FixedX THEN FixedX ELSE DraggedX)
              /\ b.y = (IF DraggedY < FixedY THEN DraggedY ELSE FixedY)
              /\ b.y + b.height = (IF DraggedY < FixedY THEN FixedY ELSE DraggedY)
              /\ (PassedX /\ ~left) => b.x = DraggedX
              /\ (PassedX /\ left) => b.x = FixedX
              /\ (PassedY /\ ~top) => b.y = DraggedY
              /\ (PassedY /\ top) => b.y = FixedY]_vars

\* C25 witness: a left handle was dragged past the box's right edge; the
\* box starts at the original right edge and has a positive width
C25_Witness ==
    /\ interaction.mode = "resizing"
    /\ Includes(interaction.handle, "left")
    /\ hist.ev \in MoveEvents
    /\ interaction.boxId \in Ids(userBoxes)
    /\ interaction.startBox.width > 0
    /\ GestureBox.x = interaction.startBox.x + interaction.startBox.width
    /\ GestureBox.width > 0

\* C26: after every layout pass the placement map holds one entry for each
\* measured label that was shifted and none for the others; each recorded
\* offset is -5px times the label's number of shift attempts, which is
\* between 1 and 30.
C26_PlacementsAreTheShiftedLabels ==
    AfterLayout =>
        /\ {r.id : r \in labelStyles} = {id \in Measured : ShiftAttempts(id) > 0}
        /\ \A r, q \in labelStyles : r.id = q.id => r = q
        /\ \A r \in labelStyles :
              /\ r.topOffset = -5 * ShiftAttempts(r.id)
              /\ ShiftAttempts(r.id) >= 1
              /\ ShiftAttempts(r.id) <= 30

\* C26 witness: a pass left one label where it was, shifted others, and
\* spent all 30 attempts on one (offset -150px)
C26_Witness ==
    /\ AfterLayout
    /\ \E id \in Measured : \A r \in labelStyles : r.id # id
    /\ \E r \in labelStyles : r.topOffset = -150
    /\ \E r \in labelStyles : r.topOffset = -30

\* C27: after a successful identification, from the editing stage or by
\* Identify Again from the results stage, the store holds exactly the
\* submitted boxes for which the service returned a result in that call, in
\* their previous order; a box without a result in that call is removed.
\* (Every step that completes handleIdentify with some results of the
\* service leaves the boxes that have a result in them.)
C27_StoreIsTheIdentifiedBoxes ==
    [][\A results \in Results(pending) :
          IdentifyResolve(results) =>
              LET identified(b) == results[b.id] = "item"
                  kept == SelectSeq(pending, identified)
              IN  /\ Len(userBoxes') = Len(kept)
                  /\ \A i \in 1..Len(kept) :
                        /\ userBoxes'[i].id = kept[i].id
                        /\ userBoxes'[i].boundingBox = kept[i].boundingBox]_vars

\* C28: when the identification call fails, the stage returns from analyzing
\* to editing with an error message set and the store holds exactly the
\* collection it held when Identify was requested; while the stage is
\* analyzing, no pointer event and no reset changes the store.
C28_FailedIdentifyKeepsStore ==
    /\ [][hist'.ev = "reject" =>
             /\ stage = "analyzing" /\ stage' = "editing"
             /\ error'
             /\ userBoxes' = pending]_vars
    /\ [][(stage = "analyzing" /\ hist'.ev \in PointerEvents \cup {"reset"}) =>
             userBoxes' = userBoxes]_vars

\* C29: in every state the active box id is null or the id of a box in the
\* store, also after the active box was deleted and after a drawn box was
\* discarded at release for being below the threshold.
C29_ActiveBoxIsInStore ==
    activeBoxId = 0 \/ activeBoxId \in Ids(userBoxes)

====
